---- MODULE Spec2Model ----
(***************************************************************************)
(* State-machine model of staticfiles/js/app-new.js: the page bootstrap,   *)
(* the toast notifier, the navigation controller, the profile page module  *)
(* (portfolio modal, biography toggle) and the grid page module (cards,    *)
(* rating stars, contact buttons).                                         *)
(*                                                                         *)
(* Every event handler of the script runs to completion on the single UI   *)
(* thread, so each handler is one action.  Timers are kept with the time   *)
(* they still have to wait; Tick lets time pass, and a timer may fire once *)
(* its wait is over (never earlier, possibly later).                       *)
(***************************************************************************)
EXTENDS Integers, Sequences, FiniteSets, TLC

VARIABLES
    pc,          \* "loading" before DOMContentLoaded, "ready" after its handler ended
    page,        \* the server-rendered document (which optional markup it has)
    errors,      \* names of the handlers that ended with an uncaught TypeError
    ran,         \* the initializers that ran to completion, in order
    listeners,   \* the event listeners registered so far
    container,   \* whether #toast-container is in the document
    toasts,      \* every toast node, server-rendered ones first
    sweep,       \* the load-time sweep timer of initToastSystem: <<>> or <<wait>>
    modals,      \* every portfolio modal node created so far
    scrollY,     \* window.scrollY
    prevScrollY, \* window.scrollY before the latest scroll event (history)
    lastScrollY, \* the closure variable of initHeaderScroll
    header,      \* class and inline transform of .main-header
    navOpen,     \* whether document.body carries the class nav-open
    scrollTo,    \* the latest window.scrollTo request: <<>> or <<top>>
    bio,         \* the biography block and its toggle button
    ratingValue, \* per rating element: <<>> or <<the value parsed from its text>>
    stars,       \* per rating element: the star nodes of its .rating-stars
    location,    \* window.location.href as set by a card click: <<>> or <<card>>
    press,       \* pending timers of animateButtonClick: <<card, wait>> each
    contactScale,\* per card: the inline transform of its contact control
    lastEvent    \* the latest user event that was dispatched (history)

vars == <<pc, page, errors, ran, listeners, container, toasts, sweep, modals,
          scrollY, prevScrollY, lastScrollY, header, navOpen, scrollTo, bio,
          ratingValue, stars, location, press, contactScale, lastEvent>>

toastVars == <<container, toasts, sweep>>
navVars   == <<scrollY, prevScrollY, lastScrollY, header, navOpen, scrollTo>>
gridVars  == <<ratingValue, stars, location, press, contactScale>>
bootVars  == <<pc, page, ran, listeners>>

(***************************************************************************)
(* Bounds of the model.                                                    *)
(***************************************************************************)
MaxToasts       == 1   \* toast nodes per page load, server-rendered ones included
MaxServerToasts == 1   \* toasts already in the served document
MaxModals       == 2   \* portfolio modals opened per page load
MaxPending      == 2   \* exit timers pending on a node when its close control is activated
MaxToggles      == 4   \* clicks on the biography toggle
MaxPress        == 1   \* pending press-animation timers
MaxRatings      == 2   \* rating elements of a page
NumCards        == 2   \* cards of a page

(***************************************************************************)
(* Constants of the program.                                               *)
(***************************************************************************)
SweepDelay       == 5000
ToastLifetime    == 5000
ToastExitDelay   == 300
ModalShowDelay   == 10
ModalExitDelay   == 300
PressDelay       == 150
BioMaxHeight     == 120
HeaderScrolledAt == 10
HeaderHideAt     == 100
NumStars         == 5

\* The amounts of time (ms) one Tick lets pass.  Every delay of the program
\* is over after a whole number of the smaller step or within one of them.
TickSteps == {1000, ToastLifetime}

Max(a, b) == IF a >= b THEN a ELSE b
Min(a, b) == IF a <= b THEN a ELSE b

\* A timer's remaining wait after d more milliseconds.
Wait(left, d) == Max(0, left - d)
WaitAll(ts, d) == [i \in DOMAIN ts |-> Wait(ts[i], d)]
Due(ts) == ts # <<>> /\ Head(ts) = 0

(***************************************************************************)
(* The served document.                                                    *)
(***************************************************************************)

\* A toast of the served document: in the document, no timer of its own.
ServerToast ==
    [origin |-> "server", type |-> "success", inDoc |-> TRUE, age |-> 0,
     closed |-> FALSE, removals |-> 0, late |-> FALSE, animation |-> "", auto |-> <<>>,
     exits |-> <<>>]

\* A page with every optional element of the core features and no
\* page-specific marker.
BasePage ==
    [header |-> TRUE, menuToggle |-> TRUE, toastContainer |-> TRUE,
     serverToasts |-> 0,
     profile |-> FALSE, items |-> <<>>, disabledButton |-> FALSE,
     bioSection |-> FALSE, bioContent |-> FALSE, bioHeight |-> 0,
     grid |-> FALSE, ratings |-> <<>>, cards |-> <<>>,
     sectionTop |-> 800, headerHeight |-> 64]

(***************************************************************************)
(* Toast notifier.                                                         *)
(***************************************************************************)

\* An animateToastOut that removes the toast at once, with no exit timer.
animateToastOut_AtOnce(toast, by) ==
    [toast EXCEPT !.animation = "toastSlideOut", !.inDoc = FALSE,
                  !.removals = @ + 1]

\* animateToastOut(toast): starts the exit animation and an exit timer; `by`
\* records which dismiss trigger called it.
animateToastOut(toast, by) ==
    [toast EXCEPT !.animation = "toastSlideOut",
                  !.exits = Append(@, [left |-> ToastExitDelay, by |-> by])]

\* A callback that removes the toast without looking at its parent.
toastExitTimeout_Unguarded(toast) ==
    [toast EXCEPT !.exits = Tail(@), !.inDoc = FALSE, !.removals = @ + 1]

\* The callback of the exit timer: removes the toast if it still has a parent
\* (removals counts the removals; late tells that a callback found no parent).
toastExitTimeout(toast) ==
    IF toast.inDoc
    THEN [toast EXCEPT !.exits = Tail(@), !.inDoc = FALSE, !.removals = @ + 1]
    ELSE [toast EXCEPT !.exits = Tail(@), !.late = TRUE]

\* The callback of the per-toast timer of showToast.
toastAutoTimeout(toast) ==
    IF toast.inDoc
    THEN animateToastOut([toast EXCEPT !.auto = <<>>], "auto")
    ELSE [toast EXCEPT !.auto = <<>>]

\* The callback of the load-time timer of initToastSystem, on one toast:
\* querySelectorAll('.toast') finds the toasts that are in the document.
toastSweepTimeout(toast) ==
    IF toast.inDoc THEN animateToastOut(toast, "sweep") ELSE toast

\* The toast node showToast appends to the container.
createToast(type) ==
    [origin |-> "script", type |-> type, inDoc |-> TRUE, age |-> 0,
     closed |-> FALSE, removals |-> 0, late |-> FALSE, animation |-> "",
     auto |-> <<ToastLifetime>>, exits |-> <<>>]

\* The click listener of a toast's close control.
toastCloseClick(toast) ==
    animateToastOut([toast EXCEPT !.closed = TRUE], "close")

\* A toast after d more milliseconds.
toastElapse(toast, d) ==
    [toast EXCEPT !.age = Min(ToastLifetime, @ + d),
                  !.auto = WaitAll(@, d),
                  !.exits = [i \in DOMAIN toast.exits |->
                                [left |-> Wait(toast.exits[i].left, d),
                                 by |-> toast.exits[i].by]]]

\* showToast(message, type): the container is created when missing, the
\* toast is appended to it and its own timer is started.
showToast(ts, type) == Append(ts, createToast(type))

\* The click listener of .contact-disabled, the script's call of showToast.
DisabledContactClick ==
    /\ pc = "ready"
    /\ "contact-disabled.click" \in listeners
    /\ Len(toasts) < MaxToasts
    /\ container' = TRUE
    /\ toasts' = showToast(toasts, "info")
    /\ UNCHANGED <<bootVars, errors, sweep, modals, navVars, bio, gridVars, lastEvent>>

ToastCloseClick(t) ==
    /\ pc = "ready"
    /\ toasts[t].inDoc
    /\ Len(toasts[t].exits) < MaxPending
    /\ toasts[t].origin = "server" => "toast-close.click" \in listeners
    /\ toasts' = [toasts EXCEPT ![t] = toastCloseClick(@)]
    /\ UNCHANGED <<bootVars, errors, container, sweep, modals, navVars, bio, gridVars, lastEvent>>

FireSweep ==
    /\ Due(sweep)
    /\ sweep' = <<>>
    /\ toasts' = [t \in DOMAIN toasts |-> toastSweepTimeout(toasts[t])]
    /\ UNCHANGED <<bootVars, errors, container, modals, navVars, bio, gridVars, lastEvent>>

FireToastAuto(t) ==
    /\ Due(toasts[t].auto)
    /\ toasts' = [toasts EXCEPT ![t] = toastAutoTimeout(@)]
    /\ UNCHANGED <<bootVars, errors, container, sweep, modals, navVars, bio, gridVars, lastEvent>>

FireToastExit(t) ==
    /\ toasts[t].exits # <<>>
    /\ Head(toasts[t].exits).left = 0
    /\ toasts' = [toasts EXCEPT ![t] = toastExitTimeout(@)]
    /\ UNCHANGED <<bootVars, errors, container, sweep, modals, navVars, bio, gridVars, lastEvent>>

(***************************************************************************)
(* Portfolio modal.                                                        *)
(***************************************************************************)

\* createModal() with the markup and the show timer of openPortfolioModal.
createModal ==
    [inDoc |-> TRUE, opacity |-> "0", scale |-> "0.9", closed |-> FALSE,
     removals |-> 0, late |-> FALSE, show |-> <<ModalShowDelay>>, exits |-> <<>>]

\* The callback of the 10ms timer of openPortfolioModal.
modalShowTimeout(modal) ==
    [modal EXCEPT !.show = <<>>, !.opacity = "1", !.scale = "1"]

\* closeModal(modal): fades the modal out and starts an exit timer.
closeModal(modal) ==
    [modal EXCEPT !.opacity = "0", !.scale = "0.9", !.closed = TRUE,
                  !.exits = Append(@, ModalExitDelay)]

\* A callback whose parent check is inverted: it never removes the modal.
modalExitTimeout_Inverted(modal) ==
    IF ~modal.inDoc
    THEN [modal EXCEPT !.exits = Tail(@), !.inDoc = FALSE, !.removals = @ + 1]
    ELSE [modal EXCEPT !.exits = Tail(@), !.late = TRUE]

\* The callback of the exit timer: removes the modal if it still has a parent.
modalExitTimeout(modal) ==
    IF modal.inDoc
    THEN [modal EXCEPT !.exits = Tail(@), !.inDoc = FALSE, !.removals = @ + 1]
    ELSE [modal EXCEPT !.exits = Tail(@), !.late = TRUE]

modalElapse(modal, d) ==
    [modal EXCEPT !.show = WaitAll(@, d), !.exits = WaitAll(@, d)]

\* The modals openPortfolioModal leaves in the document list.
openPortfolioModal(ms) == Append(ms, createModal)

\* The click listener of a portfolio item: a click on an A element is
\* ignored, and so is an item without an image.
portfolioItemClick(ms, item, targetIsA) ==
    IF targetIsA THEN ms
    ELSE IF item.image THEN openPortfolioModal(ms)
    ELSE ms

PortfolioItemClick(i, targetIsA) ==
    /\ pc = "ready"
    /\ "portfolio-item.click" \in listeners
    /\ Len(modals) < MaxModals
    /\ modals' = portfolioItemClick(modals, page.items[i], targetIsA)
    /\ lastEvent' = [kind |-> "portfolioItem", opens |-> ~targetIsA /\ page.items[i].image,
                      before |-> Len(modals)]
    /\ UNCHANGED <<bootVars, errors, toastVars, navVars, bio, gridVars>>

\* A click on the close control of modal m.
ModalCloseClick(m) ==
    /\ modals[m].inDoc
    /\ Len(modals[m].exits) < MaxPending
    /\ modals' = [modals EXCEPT ![m] = closeModal(@)]
    /\ UNCHANGED <<bootVars, errors, toastVars, navVars, bio, gridVars, lastEvent>>

\* A click inside modal m: the listener closes it only when the target is
\* the backdrop (the modal node itself).
ModalClick(m, targetIsModal) ==
    /\ modals[m].inDoc
    /\ Len(modals[m].exits) < MaxPending
    /\ modals' = [modals EXCEPT ![m] = IF targetIsModal THEN closeModal(@) ELSE @]
    /\ UNCHANGED <<bootVars, errors, toastVars, navVars, bio, gridVars, lastEvent>>

FireModalShow(m) ==
    /\ Due(modals[m].show)
    /\ modals' = [modals EXCEPT ![m] = modalShowTimeout(@)]
    /\ UNCHANGED <<bootVars, errors, toastVars, navVars, bio, gridVars, lastEvent>>

FireModalExit(m) ==
    /\ Due(modals[m].exits)
    /\ modals' = [modals EXCEPT ![m] = modalExitTimeout(@)]
    /\ UNCHANGED <<bootVars, errors, toastVars, navVars, bio, gridVars, lastEvent>>

(***************************************************************************)
(* Time.                                                                   *)
(***************************************************************************)
Tick(d) ==
    /\ pc = "ready"
    /\ toasts' = [t \in DOMAIN toasts |-> toastElapse(toasts[t], d)]
    /\ sweep' = WaitAll(sweep, d)
    /\ modals' = [m \in DOMAIN modals |-> modalElapse(modals[m], d)]
    /\ press' = [i \in DOMAIN press |->
                    [card |-> press[i].card, left |-> Wait(press[i].left, d)]]
    /\ UNCHANGED <<bootVars, errors, container, navVars, bio, ratingValue, stars,
                   location, contactScale, lastEvent>>

(***************************************************************************)
(* Navigation controller.                                                  *)
(***************************************************************************)
\* The scroll offsets the window takes in the model.
ScrollOffsets == {0, HeaderScrolledAt, HeaderScrolledAt + 1, HeaderHideAt,
                  HeaderHideAt + 1, HeaderHideAt + 50}

\* The links of the page: primary navigation links (.nav-link) or not, with
\* these href values: "#" alone, an anchor whose target exists, an anchor
\* whose target does not, and an ordinary URL.
Hrefs == {"#", "#section", "#missing", "/page"}
Links == [nav : BOOLEAN, href : Hrefs]

toggleMobileMenu(open) == ~open

\* A closeMobileMenu that toggles the class instead of removing it.
closeMobileMenu_Toggles(open) == ~open

closeMobileMenu(open) == FALSE

\* A scroll listener that hides the header from the threshold on, not past it.
headerOnScroll_AtThreshold(hdr, y, last) ==
    [scrolled |-> y > HeaderScrolledAt,
     transform |-> IF y > last /\ y >= HeaderHideAt
                   THEN "translateY(-100%)" ELSE "translateY(0)"]

\* The scroll listener of initHeaderScroll on the header, at offset y with
\* the closure variable at last.
headerOnScroll(hdr, y, last) ==
    [scrolled |-> y > HeaderScrolledAt,
     transform |-> IF y > last /\ y > HeaderHideAt
                   THEN "translateY(-100%)" ELSE "translateY(0)"]

\* Whether the click listener of initSmoothScroll takes its branch: the href
\* is longer than "#" and document.querySelector finds the target.
smoothScrolls(l) == l.href = "#section"

\* scrollToElement(element): the top it asks window.scrollTo for.
scrollToElement(p, y) == (p.sectionTop - y) + y - p.headerHeight

Scroll(y) ==
    /\ pc = "ready"
    /\ y # scrollY
    /\ scrollY' = y
    /\ prevScrollY' = scrollY
    /\ IF "window.scroll" \notin listeners
       THEN UNCHANGED <<header, lastScrollY, errors>>
       ELSE IF page.header
       THEN /\ header' = headerOnScroll(header, y, lastScrollY)
            /\ lastScrollY' = y
            /\ UNCHANGED errors
       ELSE /\ errors' = errors \cup {"scroll"}
            /\ UNCHANGED <<header, lastScrollY>>
    /\ lastEvent' = [kind |-> "scroll"]
    /\ UNCHANGED <<bootVars, toastVars, modals, navOpen, scrollTo, bio, gridVars>>

MenuToggleClick ==
    /\ pc = "ready"
    /\ page.menuToggle
    /\ navOpen' = IF "menu-toggle.click" \in listeners
                  THEN toggleMobileMenu(navOpen) ELSE navOpen
    /\ lastEvent' = [kind |-> "toggle", navBefore |-> navOpen]
    /\ UNCHANGED <<bootVars, errors, toastVars, modals, scrollY, prevScrollY,
                   lastScrollY, header, scrollTo, bio, gridVars>>

\* A click on link l: the listener of initSmoothScroll first (anchors only),
\* then the listener of initMobileMenu (primary navigation links only).  An
\* exception in the first does not keep the second from running.
LinkClick(l) ==
    LET anchor == l.href # "/page" /\ "anchor.click" \in listeners
        smooth == anchor /\ smoothScrolls(l)
        navLink == l.nav /\ "nav-link.click" \in listeners
        afterSmooth == IF smooth THEN closeMobileMenu(navOpen) ELSE navOpen
    IN  /\ pc = "ready"
        /\ navOpen' = IF navLink THEN closeMobileMenu(afterSmooth) ELSE afterSmooth
        /\ IF smooth /\ ~page.header
           THEN errors' = errors \cup {"anchor.click"} /\ UNCHANGED scrollTo
           ELSE /\ UNCHANGED errors
                /\ scrollTo' = IF smooth THEN <<scrollToElement(page, scrollY)>>
                                ELSE scrollTo
        /\ lastEvent' = [kind |-> "link", nav |-> l.nav, smooth |-> smooth,
                          navBefore |-> navOpen]
        /\ UNCHANGED <<bootVars, toastVars, modals, scrollY, prevScrollY,
                       lastScrollY, header, bio, gridVars>>

(***************************************************************************)
(* Biography block.                                                        *)
(***************************************************************************)
ShowMore == "show more"
ShowLess == "show less"
ArrowDown == " v"
ArrowUp == " ^"

\* createBioToggleButton(): textContent is set, then the arrow is appended
\* to innerHTML.
createBioToggleButton == ShowMore \o ArrowDown

\* A toggle that restores the label without its arrow.
toggleBioContent_NoArrow(b) ==
    IF b.maxHeight = "120px"
    THEN [b EXCEPT !.maxHeight = "none", !.label = "show less ^"]
    ELSE [b EXCEPT !.maxHeight = "120px", !.label = "show more"]

\* toggleBioContent(bioContent, button): innerHTML is the last text written.
toggleBioContent(b) ==
    IF b.maxHeight = "120px"
    THEN [b EXCEPT !.maxHeight = "none", !.label = "show less ^"]
    ELSE [b EXCEPT !.maxHeight = "120px", !.label = "show more v"]

BioToggleClick ==
    /\ pc = "ready"
    /\ bio.button
    /\ "bio-toggle.click" \in listeners
    /\ bio.toggles < MaxToggles
    /\ bio' = [toggleBioContent(bio) EXCEPT !.toggles = @ + 1]
    /\ UNCHANGED <<bootVars, errors, toastVars, modals, navVars, gridVars, lastEvent>>

(***************************************************************************)
(* Grid page: rating stars.                                                *)
(***************************************************************************)
Digits == {"0", "1", "2", "3", "4", "5", "6", "7", "8", "9"}
DigitValue ==
    ("0" :> 0) @@ ("1" :> 1) @@ ("2" :> 2) @@ ("3" :> 3) @@ ("4" :> 4) @@
    ("5" :> 5) @@ ("6" :> 6) @@ ("7" :> 7) @@ ("8" :> 8) @@ ("9" :> 9)

\* Numbers are exact fractions num/den with den a power of ten; nan marks NaN.
NaN == [nan |-> TRUE, num |-> 0, den |-> 1]
Number(num, den) == [nan |-> FALSE, num |-> num, den |-> den]

RECURSIVE SkipSpaces(_)
SkipSpaces(s) == IF s # <<>> /\ Head(s) = " " THEN SkipSpaces(Tail(s)) ELSE s

\* The longest prefix of s made of decimal digits.
RECURSIVE DigitPrefix(_)
DigitPrefix(s) ==
    IF s # <<>> /\ Head(s) \in Digits THEN <<Head(s)>> \o DigitPrefix(Tail(s))
    ELSE <<>>

RECURSIVE Decimal(_)
Decimal(ds) ==
    IF ds = <<>> THEN 0
    ELSE 10 * Decimal(SubSeq(ds, 1, Len(ds) - 1)) + DigitValue[ds[Len(ds)]]

RECURSIVE Pow10(_)
Pow10(n) == IF n = 0 THEN 1 ELSE 10 * Pow10(n - 1)

\* parseFloat(text) on a text given as its characters: leading white space
\* is skipped, then an optional sign, digits, and an optional fraction are
\* read; whatever follows is ignored; NaN when no digit was read.  (The
\* texts of the model hold no exponent and do not spell Infinity.)
parseFloat(text) ==
    LET s0 == SkipSpaces(text)
        signed == s0 # <<>> /\ Head(s0) \in {"-", "+"}
        sign == IF s0 # <<>> /\ Head(s0) = "-" THEN 0 - 1 ELSE 1
        s1 == IF signed THEN Tail(s0) ELSE s0
        int == DigitPrefix(s1)
        s2 == SubSeq(s1, Len(int) + 1, Len(s1))
        frac == IF s2 # <<>> /\ Head(s2) = "." THEN DigitPrefix(Tail(s2)) ELSE <<>>
    IN  IF int = <<>> /\ frac = <<>> THEN NaN
        ELSE Number(sign * (Decimal(int) * Pow10(Len(frac)) + Decimal(frac)),
                    Pow10(Len(frac)))

\* value || 0: NaN and zero are falsy.
orZero(v) == IF v.nan \/ v.num = 0 THEN Number(0, 1) ELSE v

\* i < ratingValue
starFilled_Strict(i, v) == i * v.den < v.num

\* i <= ratingValue
starFilled(i, v) == i * v.den <= v.num

\* The star nodes initRatingStars appends for rating value v.
renderStars(v) == [i \in 1..NumStars |-> starFilled(i, v)]

\* The texts a .rating-value node holds in the model.
RatingTexts ==
    { <<>>, <<"x", "4">>, <<"0">>, <<"5">>, <<"3", ".", "7">>,
      <<"5", ".", "0">>, <<"7", ".", "2">>, <<"-", "1">>, <<".", "9">>,
      <<" ", "4", ".", "5">>, <<"2", "x">>, <<"4", ".", "9", "9">> }

(***************************************************************************)
(* Grid page: cards and contact controls.                                  *)
(***************************************************************************)
\* Where a click inside a card lands: on the card's own area, on its
\* .btn-view-profile link, on its .btn-contact control, or on another
\* embedded button.
CardTargets == {"card", "profileLink", "contact", "button"}
\* The element .btn-contact is: a link, a button, or neither.
ContactTags == {"a", "button", "div"}

\* e.target.closest('a') || e.target.closest('button')
closestLinkOrButton(card, target) ==
    \/ target \in {"profileLink", "button"}
    \/ target = "contact" /\ card.contactTag \in {"a", "button"}

\* The click listener of a card: whether it sets window.location.href.
cardNavigates(card, target) ==
    IF closestLinkOrButton(card, target) THEN FALSE ELSE card.profileLink

\* The click listener of a contact control stops the propagation.
contactStops(target) == target = "contact"

CardClick(c, target) ==
    LET card == page.cards[c]
        contact == target = "contact" /\ "btn-contact.click" \in listeners
        stopped == contact /\ contactStops(target)
        navigates == /\ ~stopped
                     /\ "employee-card.click" \in listeners
                     /\ cardNavigates(card, target)
    IN  /\ pc = "ready"
        /\ target = "profileLink" => card.profileLink
        /\ contact => Len(press) < MaxPress
        /\ location' = IF navigates THEN <<c>> ELSE location
        /\ pc' = IF navigates THEN "left" ELSE pc
        /\ press' = IF contact THEN Append(press, [card |-> c, left |-> PressDelay])
                    ELSE press
        /\ contactScale' = IF contact THEN [contactScale EXCEPT ![c] = "scale(0.95)"]
                           ELSE contactScale
        /\ lastEvent' = [kind |-> "card", card |-> c, target |-> target,
                          navigated |-> navigates]
        /\ UNCHANGED <<page, ran, listeners, errors, toastVars, modals, navVars, bio,
                       ratingValue, stars>>

\* The 150ms timer of animateButtonClick.
FirePress ==
    /\ press # <<>>
    /\ Head(press).left = 0
    /\ press' = Tail(press)
    /\ contactScale' = [contactScale EXCEPT ![Head(press).card] = "scale(1)"]
    /\ UNCHANGED <<bootVars, errors, toastVars, modals, navVars, bio, ratingValue,
                   stars, location, lastEvent>>

(***************************************************************************)
(* Bootstrap: the DOMContentLoaded listener.  An initializer takes the     *)
(* document p and the run so far r, and gives the run after it; a run that *)
(* has thrown skips everything that follows, as an uncaught exception      *)
(* does.                                                                   *)
(***************************************************************************)
Completed(r, name) == [r EXCEPT !.ran = Append(@, name)]
Listen(r, names) == [r EXCEPT !.listeners = @ \cup names]
Throw(r) == [r EXCEPT !.thrown = TRUE]

initToastSystem(p, r) ==
    IF r.thrown THEN r
    ELSE Completed(
           Listen([r EXCEPT !.sweep = <<SweepDelay>>],
                  IF p.serverToasts > 0 THEN {"toast-close.click"} ELSE {}),
           "initToastSystem")

initSmoothScroll(p, r) ==
    IF r.thrown THEN r
    ELSE Completed(Listen(r, {"anchor.click"}), "initSmoothScroll")

\* document.querySelector('.main-header') may be null: the listener is
\* registered all the same.
initHeaderScroll(p, r) ==
    IF r.thrown THEN r
    ELSE Completed(Listen([r EXCEPT !.lastScrollY = r.scrollY], {"window.scroll"}),
                   "initHeaderScroll")

initScrollReveal(p, r) ==
    IF r.thrown THEN r ELSE Completed(r, "initScrollReveal")

initMobileMenu(p, r) ==
    IF r.thrown THEN r
    ELSE Completed(
           IF p.menuToggle
           THEN Listen(r, {"menu-toggle.click", "nav-link.click"})
           ELSE r,
           "initMobileMenu")

initGlobalAnimations(p, r) ==
    IF r.thrown THEN r ELSE Completed(r, "initGlobalAnimations")

initCoreFunctions(p, r) ==
    initGlobalAnimations(p,
      initMobileMenu(p,
        initScrollReveal(p,
          initHeaderScroll(p,
            initSmoothScroll(p,
              initToastSystem(p, r))))))

initPortfolioGallery(p, r) ==
    IF r.thrown THEN r
    ELSE Completed(
           IF p.items # <<>> THEN Listen(r, {"portfolio-item.click"}) ELSE r,
           "initPortfolioGallery")

initSkillTags(p, r) ==
    IF r.thrown THEN r ELSE Completed(r, "initSkillTags")

initProfileContactButtons(p, r) ==
    IF r.thrown THEN r
    ELSE Completed(
           IF p.disabledButton THEN Listen(r, {"contact-disabled.click"}) ELSE r,
           "initProfileContactButtons")

initProfileScrollAnimations(p, r) ==
    IF r.thrown THEN r ELSE Completed(r, "initProfileScrollAnimations")

\* bioSection.querySelector('.bio-content') may be null; reading its
\* scrollHeight then throws.
initBioSection(p, r) ==
    IF r.thrown THEN r
    ELSE IF ~p.bioSection THEN Completed(r, "initBioSection")
    ELSE IF ~p.bioContent THEN Throw(r)
    ELSE IF p.bioHeight > BioMaxHeight
    THEN Completed(
           Listen([r EXCEPT !.bio = [maxHeight |-> "120px", overflow |-> "hidden",
                                     button |-> TRUE,
                                     label |-> createBioToggleButton,
                                     toggles |-> 0]],
                  {"bio-toggle.click"}),
           "initBioSection")
    ELSE Completed(r, "initBioSection")

initEmployeeProfilePage(p, r) ==
    initBioSection(p,
      initProfileScrollAnimations(p,
        initProfileContactButtons(p,
          initSkillTags(p,
            initPortfolioGallery(p, r)))))

initEmployeeCards(p, r) ==
    IF r.thrown THEN r
    ELSE Completed(
           IF p.cards # <<>> THEN Listen(r, {"employee-card.click"}) ELSE r,
           "initEmployeeCards")

\* The body of the forEach of initRatingStars on rating element i:
\* querySelector('.rating-value') may be null, and reading its textContent
\* then throws; a missing .rating-stars is skipped.
ratingElement(p, r, i) ==
    LET e == p.ratings[i]
        ratingValue_ == orZero(parseFloat(e.text))
    IN  IF ~e.hasValue THEN Throw(r)
        ELSE IF e.hasStars
        THEN [r EXCEPT !.ratingValue[i] = <<ratingValue_>>,
                       !.stars[i] = renderStars(ratingValue_)]
        ELSE [r EXCEPT !.ratingValue[i] = <<ratingValue_>>]

RECURSIVE ratingLoop(_, _, _)
ratingLoop(p, r, i) ==
    IF i > Len(p.ratings) \/ r.thrown THEN r
    ELSE ratingLoop(p, ratingElement(p, r, i), i + 1)

initRatingStars(p, r) ==
    IF r.thrown THEN r
    ELSE LET after == ratingLoop(p, r, 1)
         IN  IF after.thrown THEN after ELSE Completed(after, "initRatingStars")

initGridContactButtons(p, r) ==
    IF r.thrown THEN r
    ELSE Completed(
           IF p.cards # <<>> THEN Listen(r, {"btn-contact.click"}) ELSE r,
           "initGridContactButtons")

initSkillsHoverEffects(p, r) ==
    IF r.thrown THEN r ELSE Completed(r, "initSkillsHoverEffects")

initEmployeesGridPage(p, r) ==
    initSkillsHoverEffects(p,
      initGridContactButtons(p,
        initRatingStars(p,
          initEmployeeCards(p, r))))

initPageSpecificFunctions(p, r) ==
    LET afterProfile == IF p.profile THEN initEmployeeProfilePage(p, r) ELSE r
    IN  IF p.grid THEN initEmployeesGridPage(p, afterProfile) ELSE afterProfile

\* The initializers the bootstrap is to run on document p.
ExpectedInits(p) ==
    <<"initToastSystem", "initSmoothScroll", "initHeaderScroll", "initScrollReveal",
      "initMobileMenu", "initGlobalAnimations">>
    \o (IF p.profile
        THEN <<"initPortfolioGallery", "initSkillTags", "initProfileContactButtons",
               "initProfileScrollAnimations", "initBioSection">>
        ELSE <<>>)
    \o (IF p.grid
        THEN <<"initEmployeeCards", "initRatingStars", "initGridContactButtons",
               "initSkillsHoverEffects">>
        ELSE <<>>)

DOMContentLoaded ==
    LET r0 == [thrown |-> FALSE, ran |-> ran, listeners |-> listeners,
               sweep |-> sweep, scrollY |-> scrollY, lastScrollY |-> lastScrollY,
               bio |-> bio, ratingValue |-> ratingValue, stars |-> stars]
        r == initPageSpecificFunctions(page, initCoreFunctions(page, r0))
    IN  /\ pc = "loading"
        /\ pc' = "ready"
        /\ errors' = IF r.thrown THEN errors \cup {"DOMContentLoaded"} ELSE errors
        /\ ran' = r.ran
        /\ listeners' = r.listeners
        /\ sweep' = r.sweep
        /\ lastScrollY' = r.lastScrollY
        /\ bio' = r.bio
        /\ ratingValue' = r.ratingValue
        /\ stars' = r.stars
        /\ UNCHANGED <<page, container, toasts, modals, scrollY, prevScrollY, header,
                       navOpen, scrollTo, location, press, contactScale, lastEvent>>

(***************************************************************************)
(* Initial states: the script has been loaded into document p, and the     *)
(* DOMContentLoaded event is still to come.                                *)
(***************************************************************************)
Load(p, y) ==
    /\ pc = "loading"
    /\ page = p
    /\ errors = {}
    /\ ran = <<>>
    /\ listeners = {}
    /\ container = p.toastContainer
    /\ toasts = [t \in 1..p.serverToasts |-> ServerToast]
    /\ sweep = <<>>
    /\ modals = <<>>
    /\ scrollY = y
    /\ prevScrollY = y
    /\ lastScrollY = 0
    /\ header = [scrolled |-> FALSE, transform |-> ""]
    /\ navOpen = FALSE
    /\ scrollTo = <<>>
    /\ bio = [maxHeight |-> "", overflow |-> "", button |-> FALSE, label |-> "",
              toggles |-> 0]
    /\ ratingValue = [i \in DOMAIN p.ratings |-> <<>>]
    /\ stars = [i \in DOMAIN p.ratings |-> <<>>]
    /\ location = <<>>
    /\ press = <<>>
    /\ contactScale = [c \in DOMAIN p.cards |-> ""]
    /\ lastEvent = [kind |-> "none"]

(***************************************************************************)
(* Profile pages: the toast notifier, the portfolio modal and the          *)
(* biography block.  The three features share no state, so the documents   *)
(* of this specification carry one of them each.                           *)
(***************************************************************************)
ProfilePage == [BasePage EXCEPT !.profile = TRUE]

\* Profile pages whose disabled contact control raises toasts, with and
\* without served toasts and a served toast container.
ToastPages ==
    { [ProfilePage EXCEPT !.disabledButton = TRUE, !.serverToasts = n,
                          !.toastContainer = c] :
        n \in 0..Min(MaxServerToasts, MaxToasts), c \in BOOLEAN }

\* Profile pages with a portfolio: an item with an image and one without.
ModalPages ==
    { [ProfilePage EXCEPT !.items = <<[image |-> TRUE], [image |-> FALSE]>>] }

\* The heights the biography content takes in the model.
BioHeights == {0, BioMaxHeight - 1, BioMaxHeight, BioMaxHeight + 1, 2 * BioMaxHeight}

\* Profile pages with a biography section.
BioPages ==
    { [ProfilePage EXCEPT !.bioSection = TRUE, !.bioContent = TRUE,
                          !.bioHeight = h] : h \in BioHeights }

InitProfile == \E p \in ToastPages \cup ModalPages \cup BioPages : Load(p, 0)

ToastClose == \E t \in DOMAIN toasts : ToastCloseClick(t)
ToastAutoTimer == \E t \in DOMAIN toasts : FireToastAuto(t)
ToastExitTimer == \E t \in DOMAIN toasts : FireToastExit(t)
PortfolioClick ==
    \E i \in DOMAIN page.items, targetIsA \in BOOLEAN : PortfolioItemClick(i, targetIsA)
ModalCloseButton == \E m \in DOMAIN modals : ModalCloseClick(m)
ModalInnerClick == \E m \in DOMAIN modals, onBackdrop \in BOOLEAN : ModalClick(m, onBackdrop)
ModalShowTimer == \E m \in DOMAIN modals : FireModalShow(m)
ModalExitTimer == \E m \in DOMAIN modals : FireModalExit(m)
TimePasses == \E d \in TickSteps : Tick(d)

NextProfile ==
    \/ DOMContentLoaded
    \/ DisabledContactClick
    \/ ToastClose
    \/ FireSweep
    \/ ToastAutoTimer
    \/ ToastExitTimer
    \/ PortfolioClick
    \/ ModalCloseButton
    \/ ModalInnerClick
    \/ ModalShowTimer
    \/ ModalExitTimer
    \/ BioToggleClick
    \/ TimePasses

SpecProfile == InitProfile /\ [][NextProfile]_vars

\* The toast notifier with the host's guarantee that time passes and that a
\* timer whose wait is over fires.
InitToast == \E p \in ToastPages : Load(p, 0)

NextToast ==
    \/ DOMContentLoaded
    \/ DisabledContactClick
    \/ ToastClose
    \/ FireSweep
    \/ ToastAutoTimer
    \/ ToastExitTimer
    \/ TimePasses

\* What the host does on its own: it dispatches DOMContentLoaded, lets time
\* pass and fires the timers whose wait is over.
HostStep ==
    \/ DOMContentLoaded
    \/ TimePasses
    \/ FireSweep
    \/ ToastAutoTimer
    \/ ToastExitTimer

FairToast ==
    /\ InitToast
    /\ [][NextToast]_vars
    /\ WF_vars(HostStep)

(***************************************************************************)
(* Any page: the bootstrap and the navigation controller.                  *)
(***************************************************************************)
\* The rating elements of the pages of this specification: none, or one,
\* with or without its value node and its stars container.
SomeRatings ==
    {<<>>} \cup { <<[hasValue |-> v, hasStars |-> st, text |-> <<"4">>]>> :
                    v \in BOOLEAN, st \in BOOLEAN }

AnyPages ==
    { [BasePage EXCEPT !.header = h, !.menuToggle = m, !.toastContainer = c,
                       !.profile = pr, !.bioSection = b[1], !.bioContent = b[2],
                       !.bioHeight = 2 * BioMaxHeight,
                       !.grid = g, !.ratings = rs] :
        h \in BOOLEAN, m \in BOOLEAN, c \in BOOLEAN, pr \in BOOLEAN,
        b \in {<<FALSE, FALSE>>, <<TRUE, FALSE>>, <<TRUE, TRUE>>},
        g \in BOOLEAN, rs \in SomeRatings }

InitPage == \E p \in AnyPages, y \in {0, HeaderHideAt + 1} : Load(p, y)

ScrollEvent == \E y \in ScrollOffsets : Scroll(y)
LinkClicked == \E l \in Links : LinkClick(l)

NextPage ==
    \/ DOMContentLoaded
    \/ ScrollEvent
    \/ MenuToggleClick
    \/ LinkClicked

SpecPage == InitPage /\ [][NextPage]_vars

(***************************************************************************)
(* Grid pages: rating stars, cards and contact controls.                   *)
(***************************************************************************)
\* A rating element: with its value node and a text in it or without, with
\* its stars container or without.
RatingElements ==
    [hasValue : {TRUE}, hasStars : BOOLEAN, text : RatingTexts]
    \cup [hasValue : {FALSE}, hasStars : BOOLEAN, text : {<<>>}]

RECURSIVE SeqsUpTo(_, _)
SeqsUpTo(S, n) ==
    IF n = 0 THEN {<<>>}
    ELSE LET shorter == SeqsUpTo(S, n - 1)
         IN  shorter \cup { Append(q, x) : q \in {z \in shorter : Len(z) = n - 1}, x \in S }

\* Grid pages with rating elements and no card.
RatingPages ==
    { [BasePage EXCEPT !.grid = TRUE, !.ratings = rs] :
        rs \in SeqsUpTo(RatingElements, MaxRatings) }

\* Grid pages with cards; every card holds a contact control and may hold
\* a profile link; with no rating element, or one that lacks its value node;
\* carrying the profile marker too or not, then with a biography section
\* that has its content node or lacks it.
CardPages ==
    { [BasePage EXCEPT !.grid = TRUE,
                       !.cards = [c \in 1..NumCards |->
                                    [profileLink |-> links[c], contactTag |-> tag]],
                       !.ratings = IF broken THEN <<[hasValue |-> FALSE, hasStars |-> TRUE,
                                                    text |-> <<>>]>>
                                   ELSE <<>>,
                       !.profile = pr[1], !.bioSection = pr[1], !.bioContent = pr[2],
                       !.bioHeight = 0] :
        links \in [1..NumCards -> BOOLEAN], tag \in ContactTags, broken \in BOOLEAN,
        pr \in {<<FALSE, FALSE>>, <<TRUE, TRUE>>, <<TRUE, FALSE>>} }

InitGrid == \E p \in RatingPages \cup CardPages : Load(p, 0)

CardClicked == \E c \in DOMAIN page.cards, target \in CardTargets : CardClick(c, target)

NextGrid ==
    \/ DOMContentLoaded
    \/ CardClicked
    \/ FirePress
    \/ TimePasses

SpecGrid == InitGrid /\ [][NextGrid]_vars

(***************************************************************************)
(* Properties of the toast notifier and the portfolio modal.               *)
(***************************************************************************)
ScriptToasts == {t \in DOMAIN toasts : toasts[t].origin = "script"}

\* C1: a toast made by showToast is in the document right after the call
\* (it has age 0 then), and it is out of the document only once it is 5
\* seconds old or after its own close control was activated.
C1_ToastKeptForLifetime ==
    \A t \in ScriptToasts :
        /\ toasts[t].age = 0 => toasts[t].inDoc
        /\ ~toasts[t].inDoc => toasts[t].age >= ToastLifetime \/ toasts[t].closed

\* C2 as stated: while the exit timer started by a close activation or by
\* the expiry of the toast's own timer is pending, the toast is still in
\* the document (it is removed when that timer fires, and not before).
C2_RemovedByItsOwnExitTimer ==
    \A t \in DOMAIN toasts :
        \A i \in DOMAIN toasts[t].exits :
            toasts[t].exits[i].by \in {"close", "auto"} => toasts[t].inDoc

\* C2 as amended: a toast leaves the document only in the step in which the
\* earliest exit timer pending on it fires, its wait being over; after any
\* exit timer of a toast has fired the toast is out of the document; and
\* when time passes and due timers fire, the toasts made by showToast are
\* eventually all out of the document, for good.
C2_RemovedByEarliestExitTimer ==
    /\ [][\A t \in DOMAIN toasts :
            /\ (toasts[t].inDoc /\ ~toasts'[t].inDoc)
                  => /\ toasts[t].exits # <<>>
                     /\ Head(toasts[t].exits).left = 0
                     /\ toasts'[t].exits = Tail(toasts[t].exits)
            /\ Len(toasts'[t].exits) < Len(toasts[t].exits) => ~toasts'[t].inDoc]_vars
    /\ <>[](\A t \in ScriptToasts : ~toasts[t].inDoc)

\* C2's case: a toast whose close control was activated has been removed by
\* an earlier exit timer while the exit timer of a later trigger is pending.
C2_Witness ==
    \E t \in ScriptToasts :
        /\ toasts[t].closed
        /\ ~toasts[t].inDoc
        /\ toasts[t].exits # <<>>

\* C4: a portfolio click that opens the modal adds exactly one modal node;
\* a modal that was closed and has no exit timer left to fire is out of the
\* document, so once every opened modal was closed and its exit timers have
\* fired, no modal node is in the document.
C4_ModalRemovedAfterClose ==
    /\ lastEvent.kind = "portfolioItem" =>
          Len(modals) = lastEvent.before + (IF lastEvent.opens THEN 1 ELSE 0)
    /\ \A m \in DOMAIN modals :
          /\ modals[m].closed /\ modals[m].exits = <<>> => ~modals[m].inDoc
          /\ ~modals[m].inDoc => modals[m].closed
    /\ (\A m \in DOMAIN modals : modals[m].closed /\ modals[m].exits = <<>>)
          => Cardinality({m \in DOMAIN modals : modals[m].inDoc}) = 0

\* C4's case: the modal was opened and closed twice, and both exit
\* animations are over.
C4_Witness ==
    /\ Len(modals) = 2
    /\ \A m \in DOMAIN modals :
          modals[m].closed /\ modals[m].exits = <<>> /\ ~modals[m].inDoc

\* C10: whatever dismiss triggers hit a toast or a modal, the node is removed
\* at most once and is out of the document exactly when it was removed once;
\* an exit timer that fires later changes nothing of it, and no handler
\* ends with an error.
C10_RemovedExactlyOnce ==
    /\ \A t \in DOMAIN toasts :
          /\ toasts[t].removals = (IF toasts[t].inDoc THEN 0 ELSE 1)
          /\ toasts[t].late => ~toasts[t].inDoc
    /\ \A m \in DOMAIN modals :
          /\ modals[m].removals = (IF modals[m].inDoc THEN 0 ELSE 1)
          /\ modals[m].late => ~modals[m].inDoc
    /\ errors = {}

\* C10's case: a toast whose close control was activated while another
\* exit timer was pending was removed once, and the later exit timer has
\* fired and found no parent.
C10_Witness ==
    \E t \in ScriptToasts :
        /\ toasts[t].closed
        /\ toasts[t].removals = 1
        /\ toasts[t].late
        /\ toasts[t].exits = <<>>

\* The same case on a modal: closed twice, removed once, both timers fired.
C10_ModalCase ==
    \E m \in DOMAIN modals :
        modals[m].removals = 1 /\ modals[m].late /\ modals[m].exits = <<>>

(***************************************************************************)
(* Properties of the biography block.                                      *)
(***************************************************************************)
\* C5: a biography higher than 120 starts collapsed with the label of
\* createBioToggleButton; the cap is 120px exactly when the label is that
\* one; after an even number of toggles the block is collapsed with that
\* label, and after an odd number it is expanded with the other label.
C5_BioToggleInvolution ==
    /\ pc = "ready" /\ page.bioSection /\ page.bioContent
          => (bio.button <=> page.bioHeight > BioMaxHeight)
    /\ bio.button =>
          /\ bio.maxHeight = "120px" <=> bio.label = "show more v"
          /\ bio.toggles % 2 = 0 => bio.maxHeight = "120px" /\ bio.label = "show more v"
          /\ bio.toggles % 2 = 1 => bio.maxHeight = "none" /\ bio.label = "show less ^"

\* C5's case: the toggle was clicked twice.
C5_Witness ==
    bio.button /\ bio.toggles = 2 /\ bio.maxHeight = "120px"

(***************************************************************************)
(* Properties of the navigation controller and of the bootstrap.           *)
(***************************************************************************)
\* C6: after a scroll event the header carries the scrolled style exactly
\* when the offset is above 10, and is translated off-screen exactly when
\* the offset is above 100 and above the offset before the event; otherwise
\* it is shown.
C6_HeaderFollowsScroll ==
    lastEvent.kind = "scroll" /\ page.header =>
        /\ header.scrolled <=> scrollY > 10
        /\ header.transform = "translateY(-100%)"
              <=> (scrollY > prevScrollY /\ scrollY > 100)
        /\ header.transform = "translateY(0)"
              <=> ~(scrollY > prevScrollY /\ scrollY > 100)

\* C6's case: a scroll down past 100px has hidden the header.
C6_Witness ==
    /\ lastEvent.kind = "scroll"
    /\ page.header
    /\ prevScrollY <= 100
    /\ scrollY > 100
    /\ header.transform = "translateY(-100%)"

\* C8: a click on the toggle button flips the menu; right after a click on
\* a primary navigation link, and right after a smooth-scroll navigation
\* through an anchor link, the menu is closed.
C8_MenuClosedAfterNavigation ==
    /\ lastEvent.kind = "toggle" => navOpen = ~lastEvent.navBefore
    /\ lastEvent.kind = "link" /\ (lastEvent.nav \/ lastEvent.smooth) => ~navOpen

\* C8's case: the menu was open when an anchor link that is no primary
\* navigation link was clicked, and the smooth scroll has closed it.
C8_Witness ==
    /\ lastEvent.kind = "link"
    /\ lastEvent.smooth
    /\ ~lastEvent.nav
    /\ lastEvent.navBefore
    /\ ~navOpen

\* C9: on every page no handler ends with an error, and the bootstrap runs
\* every initializer of the page to completion.
C9_NoHandlerThrows ==
    /\ errors = {}
    /\ pc = "ready" => ran = ExpectedInits(page)

(***************************************************************************)
(* Properties of the grid page.                                            *)
(***************************************************************************)
\* The rating elements whose value initRatingStars has parsed and that
\* hold a stars container.
RatedElements ==
    {i \in DOMAIN page.ratings : ratingValue[i] # <<>> /\ page.ratings[i].hasStars}

Filled(i) == {k \in DOMAIN stars[i] : stars[i][k]}

\* C3: for every rating value R parsed from an element's text (0 when the
\* text does not parse) the stars container holds five stars, star k is
\* filled exactly when k <= R, the filled stars are a prefix, and their
\* number is min(5, max(0, floor(R))); 3.7 fills stars 1 to 3.
C3_StarsMatchRating ==
    \A i \in RatedElements :
        LET R == ratingValue[i][1]
            text == page.ratings[i].text
        IN  /\ ~R.nan
            /\ Len(stars[i]) = 5
            /\ \A k \in 1..5 : stars[i][k] <=> k * R.den <= R.num
            /\ \A k \in 1..4 : stars[i][k + 1] => stars[i][k]
            /\ Cardinality(Filled(i)) = Min(5, Max(0, R.num \div R.den))
            /\ text = <<"3", ".", "7">> => Filled(i) = {1, 2, 3}
            /\ text = <<"5">> => Filled(i) = {1, 2, 3, 4, 5}
            /\ text = <<"7", ".", "2">> => Filled(i) = {1, 2, 3, 4, 5}
            /\ text = <<" ", "4", ".", "5">> => Filled(i) = {1, 2, 3, 4}
            /\ text \in {<<>>, <<"x", "4">>, <<"0">>, <<"-", "1">>, <<".", "9">>}
                  => Filled(i) = {}

\* C3's case: the text 3.7 was parsed and its stars were rendered, in the
\* second rating element of a page.
C3_Witness ==
    /\ 2 \in RatedElements
    /\ page.ratings[2].text = <<"3", ".", "7">>
    /\ ratingValue[2] = <<Number(37, 10)>>
    /\ Len(stars[2]) = 5

\* C7: a click on a card outside any link or button navigates to the
\* card's profile URL; a click on its contact control, or on any link or
\* button in it, does not navigate, and the contact click starts the press
\* animation.
C7_CardClickNavigates ==
    lastEvent.kind = "card" =>
        LET c == lastEvent.card
        IN  /\ lastEvent.target = "card" /\ page.cards[c].profileLink
                  => lastEvent.navigated /\ location = <<c>>
            /\ lastEvent.target # "card" => ~lastEvent.navigated
            /\ lastEvent.target = "contact" => contactScale[c] # ""

\* C7 on the pages whose bootstrap did not throw.
C7_WhenBootstrapCompleted ==
    errors = {} => C7_CardClickNavigates

====
